---- MODULE Spec2Model ----
(***************************************************************************)
(* Model of the author performance ledger of the contrarian analysis       *)
(* pipeline: MasterContrarianDatabase (master_contrarian_database.py), the *)
(* callers that feed it, its query operations, and identify_contrarians of *)
(* the three analyzers.                                                    *)
(*                                                                         *)
(* Encoding of Python values                                               *)
(*   - an author name is a sequence of one-character strings;              *)
(*   - percentages rounded to one decimal are integers in tenths           *)
(*     (33.3 is 333), scores rounded to two decimals are integers in       *)
(*     hundredths (8.4 is 840);                                            *)
(*   - Contrarian_Success_Rate is a tenths value, NoneRate (Python None,   *)
(*     written to the CSV as an empty cell) or NaNRate (float NaN, which   *)
(*     is what pandas.read_csv returns for an empty cell or for the text   *)
(*     'nan', and which csv.DictWriter writes back as 'nan');              *)
(*   - was_correct is "True", "False" or "None";                           *)
(*   - Companies_List (a ';'-joined string) is the sequence of its parts;  *)
(*   - datetime.now() is a logical clock that ticks once per call of       *)
(*     add_contrarian_analysis;                                            *)
(*   - a dict that lacks a key has the value Absent under that key; a      *)
(*     failed article analysis (None) is NoAnalysis, a missing actual      *)
(*     result (None) is NoResult;                                          *)
(*   - price_change_percent is an integer in hundredths of a percent.      *)
(***************************************************************************)
EXTENDS Integers, Sequences, FiniteSets, TLC

VARIABLES
  master,   \* master_contrarian_database.csv: [exists, readable, rows: Author_ID -> row]
  hist,     \* author_histories/<id>_history.csv: Author_ID -> sequence of rows
  pc,       \* per writer: position in add_contrarian_analysis
  batch,    \* per writer: report_data and contrarians of the running call
  updated,  \* per writer: the dict updated_data
  idx,      \* per writer: position of the loop over contrarians
  now,      \* per writer: datetime.now() of the running (or last) call
  result,   \* per writer: how the last call ended
  clock,    \* calls started so far
  used,     \* findings handed over so far
  version,  \* history variable: rewrites of the master file so far
  seen,     \* history variable, per writer: version of the master file it loaded
  printed,  \* the kinds of message the ledger has printed on the console so far
  analysis, \* the last identify_contrarians call: its inputs, locals and result
  query     \* the last query operation: its arguments and result

vars == <<master, hist, pc, batch, updated, idx, now, result, clock, used,
          version, seen, printed, analysis, query>>

writerVars ==
  <<master, hist, pc, batch, updated, idx, now, result, clock, used, version, seen,
    printed>>

(* ------------------------------ bounds --------------------------------- *)

\* total number of findings handed to add_contrarian_analysis in one run
MaxFindings == 3

\* longest batch (contrarians list) of one call
MaxBatch == 2

\* total number of findings in a run with I/O failures
MaxFindingsFault == 2

\* total number of findings in a run with two writer processes
MaxFindingsConc == 2

\* longest list of analyzed articles handed to identify_contrarians
MaxArticles == 3

\* total number of findings in a run that feeds analyzer reports to the ledger
MaxFindingsAnalysis == 3

\* total number of findings in a run that ends with a query
MaxFindingsQuery == 2

\* largest limit of get_top_contrarians and min_instances of get_repeat_contrarians
MaxLimit == 2

(* --------------------------- Python values ----------------------------- *)

NoneRate == -1

NaNRate == -2

Absent == "<absent>"

NoActual == "<none>"

Writers == {1, 2}

(* ------------------------------ inputs --------------------------------- *)

JohnSmith == <<"J", " ", "S">>

johnsmith == <<"j", " ", "s">>

MikeDavis == <<"M", ".", "D">>

\* the findings (contrarian dicts) a caller may pass
FindingPool ==
  { [author |-> JohnSmith, sentiment |-> "bullish", earnings_prediction |-> "beat",
     was_minority_sentiment |-> TRUE, was_minority_prediction |-> TRUE,
     contrarian_score |-> 840],
    [author |-> johnsmith, sentiment |-> "bearish", earnings_prediction |-> "Miss",
     was_minority_sentiment |-> TRUE, was_minority_prediction |-> FALSE,
     contrarian_score |-> 720],
    [author |-> MikeDavis, sentiment |-> "neutral", earnings_prediction |-> Absent,
     was_minority_sentiment |-> FALSE, was_minority_prediction |-> TRUE,
     contrarian_score |-> 912],
    [author |-> MikeDavis, sentiment |-> Absent, earnings_prediction |-> "unknown",
     was_minority_sentiment |-> FALSE, was_minority_prediction |-> FALSE,
     contrarian_score |-> 0] }

\* report_data of a direct caller (demo, csv exporter): resolved or no outcome
DirectReports ==
  { [company |-> "Apple Inc.", symbol |-> "AAPL", earnings_date |-> "2024-01-25",
     actual_result |-> "beat"],
    [company |-> "Microsoft Corporation", symbol |-> "MSFT",
     earnings_date |-> "2024-01-24", actual_result |-> NoActual] }

\* report_data built by AutomatedPipeline._update_master_contrarian_database:
\* no EPS data is available there and the result is the literal 'unknown'
PipelineReport ==
  [company |-> "Apple Inc.", symbol |-> "Apple Inc.", earnings_date |-> "2024-02-01",
   actual_result |-> "unknown"]

Batches == UNION { [1..n -> FindingPool] : n \in 1..MaxBatch }

JohnSmithWide == <<"J", " ", " ", "S">>

\* article['analysis'] of an article whose LLM analysis failed (None)
NoAnalysis ==
  [sentiment |-> Absent, earnings_prediction |-> Absent, confidence |-> Absent,
   prediction_confidence |-> Absent]

\* analyzed articles: the article's author and the analysis dict of
\* analyze_article_sentiment_and_prediction
SmithArticle ==
  [author |-> JohnSmith,
   analysis |-> [sentiment |-> "bullish", earnings_prediction |-> "beat",
                 confidence |-> "high", prediction_confidence |-> "medium"]]

SmithWideArticle ==
  [author |-> JohnSmithWide,
   analysis |-> [sentiment |-> "bearish", earnings_prediction |-> "beat",
                 confidence |-> Absent, prediction_confidence |-> "low"]]

DavisArticle ==
  [author |-> MikeDavis,
   analysis |-> [sentiment |-> "neutral", earnings_prediction |-> "miss",
                 confidence |-> "medium", prediction_confidence |-> "high"]]

UnanalyzedArticle == [author |-> MikeDavis, analysis |-> NoAnalysis]

ArticlePool == {SmithArticle, SmithWideArticle, DavisArticle, UnanalyzedArticle}

ArticleBatches == UNION { [1..n -> ArticlePool] : n \in 0..MaxArticles }

\* the article lists of the runs whose report is handed to the ledger
SampleBatches ==
  { << >>,
    <<UnanalyzedArticle>>,
    <<SmithArticle>>,
    <<SmithArticle, SmithArticle, SmithWideArticle>>,
    <<SmithArticle, SmithArticle, DavisArticle>>,
    <<SmithArticle, SmithWideArticle, DavisArticle>> }

\* (post - pre) / pre * 100 around the earnings date, in thousandths of a percent:
\* clear moves, the 3% boundary itself, and moves just beyond the boundary
\* that round(price_change, 2) brings back onto it
PriceChanges == {5000, -5000, 3000, 3004, -3004}

(* ----------------------------- helpers --------------------------------- *)

\* str.lower() on one character
LowerChar(c) ==
  CASE c = "J" -> "j"
    [] c = "S" -> "s"
    [] c = "M" -> "m"
    [] c = "D" -> "d"
    [] OTHER -> c

\* str.lower() on the prediction and result words
LowerWord(s) ==
  CASE s = "Beat" -> "beat"
    [] s = "Miss" -> "miss"
    [] s = "Meet" -> "meet"
    [] OTHER -> s

\* dict.get(key, default) for a key the finding may lack
Get(value, default) == IF value = Absent THEN default ELSE value

RECURSIVE GenerateAuthorId(_)
\* author_name.lower().replace(' ', '_').replace('.', '').replace(',', '')
GenerateAuthorId(name) ==
  IF name = << >> THEN << >>
  ELSE LET c == LowerChar(Head(name))
           rest == GenerateAuthorId(Tail(name))
       IN  IF c = " " THEN <<"_">> \o rest
           ELSE IF c = "." \/ c = "," THEN rest
           ELSE <<c>> \o rest

AuthorIds ==
  { GenerateAuthorId(f.author) : f \in FindingPool }
    \cup { GenerateAuthorId(a.author) : a \in ArticlePool }

\* round(num / den * scale) to the nearest integer, ties to even (Python round)
RoundDiv(num, den) ==
  LET q == num \div den
      r == num % den
  IN  IF 2 * r < den THEN q
      ELSE IF 2 * r > den THEN q + 1
      ELSE IF q % 2 = 0 THEN q ELSE q + 1

\* round(a / b * 100, 1), in tenths
PercentTenths(a, b) == RoundDiv(a * 1000, b)

InSeq(x, s) == \E k \in 1..Len(s) : s[k] = x

(* ------------------ MasterContrarianDatabase: pure parts ---------------- *)

\* _evaluate_contrarian_accuracy: Optional[bool] as "True" / "False" / "None"
EvaluateContrarianAccuracy(contrarian, actual_result) ==
  IF actual_result = NoActual THEN "None"
  ELSE LET prediction == LowerWord(Get(contrarian.earnings_prediction, ""))
           actual_outcome == LowerWord(actual_result)
       IN  IF prediction = "beat" /\ actual_outcome = "beat" THEN "True"
           ELSE IF prediction = "miss" /\ actual_outcome = "miss" THEN "True"
           ELSE IF prediction = "meet" /\ actual_outcome = "meet" THEN "True"
           ELSE IF prediction # "" /\ actual_outcome # "" THEN "False"
           ELSE "None"

\* _determine_contrarian_type
DetermineContrarianType(contrarian) ==
  IF contrarian.was_minority_sentiment /\ contrarian.was_minority_prediction
    THEN "Both_Sentiment_Prediction"
  ELSE IF contrarian.was_minority_sentiment THEN "Sentiment_Only"
  ELSE IF contrarian.was_minority_prediction THEN "Prediction_Only"
  ELSE "Unknown"

\* _calculate_risk_level; every comparison with float NaN is False in Python
CalculateRiskLevel(author_data) ==
  LET success_rate == author_data.Contrarian_Success_Rate
      total_calls == author_data.Total_Contrarian_Instances
      consistency == author_data.Consistency_Score
      isNaN == success_rate = NaNRate
  IN  IF success_rate = NoneRate \/ total_calls < 2 THEN "Unknown"
      ELSE IF ~isNaN /\ success_rate >= 700 /\ total_calls >= 3 THEN "Low_Risk"
      ELSE IF ~isNaN /\ success_rate >= 500 /\ consistency >= 500 THEN "Medium_Risk"
      ELSE IF (~isNaN /\ success_rate < 300) \/ consistency < 200 THEN "High_Risk"
      ELSE "Medium_Risk"

\* was_correct if was_correct is not None else 'Unknown'
WasCorrectCell(was_correct) == IF was_correct = "None" THEN "Unknown" ELSE was_correct

\* CreateNewAuthorRecord that rates the new entry with _calculate_risk_level,
\* as an update does
CreateNewAuthorRecordRated(author_name, author_id, company, symbol, earnings_date, contrarian_type, was_correct, contrarian_score, t) ==
  LET d == [Author_ID |-> author_id,
            Author_Name |-> author_name,
            First_Seen_Date |-> earnings_date,
            Last_Seen_Date |-> earnings_date,
            Total_Earnings_Calls |-> 1,
            Total_Companies_Covered |-> 1,
            Total_Contrarian_Instances |-> 1,
            Successful_Contrarian_Calls |-> IF was_correct = "True" THEN 1 ELSE 0,
            Failed_Contrarian_Calls |-> IF was_correct = "False" THEN 1 ELSE 0,
            Contrarian_Success_Rate |->
              IF was_correct = "True" THEN 1000
              ELSE IF was_correct = "False" THEN 0 ELSE NoneRate,
            Overall_Contrarian_Score |-> contrarian_score,
            Average_Contrarian_Score_Per_Call |-> contrarian_score,
            Companies_List |-> <<company>>,
            Latest_Company |-> company,
            Latest_Symbol |-> symbol,
            Latest_Earnings_Date |-> earnings_date,
            Latest_Contrarian_Type |-> contrarian_type,
            Latest_Was_Correct |-> WasCorrectCell(was_correct),
            Repeat_Contrarian_Count |-> 0,
            Consistency_Score |-> 1000,
            Risk_Level |-> "New",
            Last_Updated |-> t]
  IN  [d EXCEPT !.Risk_Level = CalculateRiskLevel(d)]

\* _create_new_author_record
CreateNewAuthorRecord(author_name, author_id, company, symbol, earnings_date, contrarian_type, was_correct, contrarian_score, t) ==
  [Author_ID |-> author_id,
   Author_Name |-> author_name,
   First_Seen_Date |-> earnings_date,
   Last_Seen_Date |-> earnings_date,
   Total_Earnings_Calls |-> 1,
   Total_Companies_Covered |-> 1,
   Total_Contrarian_Instances |-> 1,
   Successful_Contrarian_Calls |-> IF was_correct = "True" THEN 1 ELSE 0,
   Failed_Contrarian_Calls |-> IF was_correct = "False" THEN 1 ELSE 0,
   Contrarian_Success_Rate |->
     IF was_correct = "True" THEN 1000
     ELSE IF was_correct = "False" THEN 0 ELSE NoneRate,
   Overall_Contrarian_Score |-> contrarian_score,
   Average_Contrarian_Score_Per_Call |-> contrarian_score,
   Companies_List |-> <<company>>,
   Latest_Company |-> company,
   Latest_Symbol |-> symbol,
   Latest_Earnings_Date |-> earnings_date,
   Latest_Contrarian_Type |-> contrarian_type,
   Latest_Was_Correct |-> WasCorrectCell(was_correct),
   Repeat_Contrarian_Count |-> 0,
   Consistency_Score |-> 1000,
   Risk_Level |-> "New",
   Last_Updated |-> t]

\* UpdateCounts that forgets to count the appearance (Total_Earnings_Calls)
UpdateCountsNoAppearance(author_data, company, was_correct) ==
  LET instances == author_data.Total_Contrarian_Instances + 1
      successes == author_data.Successful_Contrarian_Calls
                     + (IF was_correct = "True" THEN 1 ELSE 0)
      failures == author_data.Failed_Contrarian_Calls
                     + (IF was_correct = "False" THEN 1 ELSE 0)
  IN  [author_data EXCEPT
         !.Total_Contrarian_Instances = instances,
         !.Successful_Contrarian_Calls = successes,
         !.Failed_Contrarian_Calls = failures,
         !.Contrarian_Success_Rate =
            IF successes + failures > 0
              THEN PercentTenths(successes, successes + failures) ELSE @]

\* UpdateCounts that tests "not was_correct" instead of "was_correct is False",
\* so an unknown correctness counts as a failed call
UpdateCountsUnknownFails(author_data, company, was_correct) ==
  LET successes == author_data.Successful_Contrarian_Calls
                     + (IF was_correct = "True" THEN 1 ELSE 0)
      failures == author_data.Failed_Contrarian_Calls
                     + (IF was_correct # "True" THEN 1 ELSE 0)
  IN  [author_data EXCEPT
         !.Total_Earnings_Calls = @ + 1,
         !.Total_Contrarian_Instances = @ + 1,
         !.Successful_Contrarian_Calls = successes,
         !.Failed_Contrarian_Calls = failures,
         !.Contrarian_Success_Rate = PercentTenths(successes, successes + failures)]

\* _update_existing_author counting a contrarian instance only when the
\* finding's correctness is known
UpdateCountsResolvedInstances(author_data, company, was_correct) ==
  LET calls == author_data.Total_Earnings_Calls + 1
      instances == author_data.Total_Contrarian_Instances
                     + (IF was_correct = "None" THEN 0 ELSE 1)
      isNew == ~InSeq(company, author_data.Companies_List)
      companies_list == IF isNew THEN Append(author_data.Companies_List, company)
                        ELSE author_data.Companies_List
      successes == author_data.Successful_Contrarian_Calls
                     + (IF was_correct = "True" THEN 1 ELSE 0)
      failures == author_data.Failed_Contrarian_Calls
                     + (IF was_correct = "False" THEN 1 ELSE 0)
      total_calls_with_results == successes + failures
  IN  [author_data EXCEPT
         !.Total_Earnings_Calls = calls,
         !.Total_Contrarian_Instances = instances,
         !.Total_Companies_Covered = IF isNew THEN Len(companies_list) ELSE @,
         !.Companies_List = companies_list,
         !.Successful_Contrarian_Calls = successes,
         !.Failed_Contrarian_Calls = failures,
         !.Contrarian_Success_Rate =
            IF total_calls_with_results > 0
              THEN PercentTenths(successes, total_calls_with_results)
              ELSE @]

\* _update_existing_author appending the company of every finding, covered
\* before or not
UpdateCountsCompanyAppended(author_data, company, was_correct) ==
  LET calls == author_data.Total_Earnings_Calls + 1
      instances == author_data.Total_Contrarian_Instances + 1
      companies_list == Append(author_data.Companies_List, company)
      successes == author_data.Successful_Contrarian_Calls
                     + (IF was_correct = "True" THEN 1 ELSE 0)
      failures == author_data.Failed_Contrarian_Calls
                     + (IF was_correct = "False" THEN 1 ELSE 0)
      total_calls_with_results == successes + failures
  IN  [author_data EXCEPT
         !.Total_Earnings_Calls = calls,
         !.Total_Contrarian_Instances = instances,
         !.Total_Companies_Covered = Len(companies_list),
         !.Companies_List = companies_list,
         !.Successful_Contrarian_Calls = successes,
         !.Failed_Contrarian_Calls = failures,
         !.Contrarian_Success_Rate =
            IF total_calls_with_results > 0
              THEN PercentTenths(successes, total_calls_with_results)
              ELSE @]

\* _update_existing_author, lines 184-205: counts, companies, accuracy, rate
UpdateCounts(author_data, company, was_correct) ==
  LET calls == author_data.Total_Earnings_Calls + 1
      instances == author_data.Total_Contrarian_Instances + 1
      isNew == ~InSeq(company, author_data.Companies_List)
      companies_list == IF isNew THEN Append(author_data.Companies_List, company)
                        ELSE author_data.Companies_List
      successes == author_data.Successful_Contrarian_Calls
                     + (IF was_correct = "True" THEN 1 ELSE 0)
      failures == author_data.Failed_Contrarian_Calls
                     + (IF was_correct = "False" THEN 1 ELSE 0)
      total_calls_with_results == successes + failures
  IN  [author_data EXCEPT
         !.Total_Earnings_Calls = calls,
         !.Total_Contrarian_Instances = instances,
         !.Total_Companies_Covered = IF isNew THEN Len(companies_list) ELSE @,
         !.Companies_List = companies_list,
         !.Successful_Contrarian_Calls = successes,
         !.Failed_Contrarian_Calls = failures,
         !.Contrarian_Success_Rate =
            IF total_calls_with_results > 0
              THEN PercentTenths(successes, total_calls_with_results)
              ELSE @]

\* _update_existing_author, lines 207-228: scores, latest fields, repeat count,
\* consistency
UpdateScores(d, company, symbol, earnings_date, contrarian_type, was_correct, contrarian_score) ==
  LET overall == d.Overall_Contrarian_Score + contrarian_score
  IN  [d EXCEPT
         !.Overall_Contrarian_Score = overall,
         !.Average_Contrarian_Score_Per_Call =
            RoundDiv(overall, d.Total_Contrarian_Instances),
         !.Last_Seen_Date = earnings_date,
         !.Latest_Company = company,
         !.Latest_Symbol = symbol,
         !.Latest_Earnings_Date = earnings_date,
         !.Latest_Contrarian_Type = contrarian_type,
         !.Latest_Was_Correct = WasCorrectCell(was_correct),
         !.Repeat_Contrarian_Count =
            IF d.Total_Contrarian_Instances > 1
              THEN d.Total_Contrarian_Instances - 1 ELSE @,
         !.Consistency_Score =
            PercentTenths(d.Total_Contrarian_Instances, d.Total_Earnings_Calls)]

\* _update_existing_author
UpdateExistingAuthor(author_data, company, symbol, earnings_date, contrarian_type, was_correct, contrarian_score, t) ==
  LET d1 == UpdateCounts(author_data, company, was_correct)
      d2 == UpdateScores(d1, company, symbol, earnings_date, contrarian_type,
                         was_correct, contrarian_score)
  IN  [d2 EXCEPT !.Risk_Level = CalculateRiskLevel(d2), !.Last_Updated = t]

\* the row _save_author_history appends to <author_id>_history.csv
HistoryRow(author_name, company, symbol, earnings_date, contrarian_data, was_correct, t) ==
  [Date_Added |-> t,
   Author_Name |-> author_name,
   Company |-> company,
   Symbol |-> symbol,
   Earnings_Date |-> earnings_date,
   Sentiment |-> Get(contrarian_data.sentiment, "N/A"),
   Earnings_Prediction |-> Get(contrarian_data.earnings_prediction, "N/A"),
   Contrarian_Type |-> DetermineContrarianType(contrarian_data),
   Contrarian_Score |-> contrarian_data.contrarian_score,
   Was_Minority_Sentiment |-> contrarian_data.was_minority_sentiment,
   Was_Minority_Prediction |-> contrarian_data.was_minority_prediction,
   Was_Correct |-> WasCorrectCell(was_correct)]

\* one row read back by pandas.read_csv + row.to_dict(): an empty cell and the
\* text 'nan' both come back as float NaN; numbers and ordinary text come back
\* as written
ReadRow(row) ==
  [row EXCEPT !.Contrarian_Success_Rate = IF @ = NoneRate THEN NaNRate ELSE @]

\* what _load_existing_data prints: the except branch reports a failed read
LoadMessages(file) ==
  IF file.exists /\ ~file.readable THEN {"Error loading existing data"} ELSE {}

\* _load_existing_data: an unreadable file is reported and gives an empty dict
LoadExistingData(file) ==
  IF file.exists /\ file.readable
    THEN [id \in DOMAIN file.rows |-> ReadRow(file.rows[id])]
    ELSE << >>

\* _save_master_database opening the file in append mode, as _save_author_history
\* does: the rows already on disk stay, and a reader keeps the last row per id
SaveMasterDatabaseAppendMode(data) ==
  [exists |-> TRUE, readable |-> TRUE, rows |-> data @@ master.rows]

\* _save_master_database: the file is rewritten from the dict; None is written
\* as an empty cell, NaN as 'nan'
SaveMasterDatabase(data) == [exists |-> TRUE, readable |-> TRUE, rows |-> data]

(* ------------------- identify_contrarians: pure parts ------------------- *)

\* actual_result when get_actual_earnings_result returned None
NoResult == [result |-> NoActual, price_change_percent |-> 0]

\* get_actual_earnings_result, lines 308-325: the result from the unrounded
\* price change, price_change_percent rounded to two decimals (hundredths)
GetActualEarningsResult(price_change) ==
  [result |-> IF price_change > 3000 THEN "beat"
              ELSE IF price_change < -3000 THEN "miss" ELSE "meet",
   price_change_percent |-> RoundDiv(price_change, 10)]

ActualResults == {NoResult} \cup {GetActualEarningsResult(p) : p \in PriceChanges}

\* [article for article in analyzed_articles if article.get('analysis')]
ValidArticles(analyzed_articles) ==
  SelectSeq(analyzed_articles, LAMBDA article : article.analysis # NoAnalysis)

\* collections.Counter over a list
Counter(values) ==
  [v \in {values[k] : k \in 1..Len(values)} |->
     Cardinality({k \in 1..Len(values) : values[k] = v})]

\* [article['analysis']['sentiment'] for article in valid_articles]
Sentiments(valid_articles) ==
  [k \in 1..Len(valid_articles) |-> valid_articles[k].analysis.sentiment]

\* [article['analysis']['earnings_prediction'] for article in valid_articles]
Predictions(valid_articles) ==
  [k \in 1..Len(valid_articles) |-> valid_articles[k].analysis.earnings_prediction]

\* TotalArticles that counts the articles whose analysis failed as well
TotalArticlesAnalyzedOrNot(analyzed_articles) == Len(analyzed_articles)

\* total_articles = len(valid_articles)
TotalArticles(analyzed_articles) == Len(ValidArticles(analyzed_articles))

\* IsMinority on the share of the other articles holding the view
IsMinorityAmongOthers(count, total) == 5 * (count - 1) < 2 * total

\* count / total_articles < 0.4
IsMinority(count, total) == 5 * count < 2 * total

\* lines 375-381: the sentiment the price change stands for
ActualSentiment(actual_result) ==
  IF actual_result.price_change_percent > 300 THEN "bullish"
  ELSE IF actual_result.price_change_percent < -300 THEN "bearish"
  ELSE "neutral"

\* 20 if confidence == 'high' else 10 if confidence == 'medium' else 5
ConfidenceBonus(confidence) ==
  IF confidence = "high" THEN 20 ELSE IF confidence = "medium" THEN 10 ELSE 5

\* base_score of one dimension: (1 - share) * 100 + bonus, times 1.5 if correct;
\* the value is BaseScore / (2 * total) hundredths
BaseScore(count, total, confidence, correct) ==
  ((total - count) * 10000 + ConfidenceBonus(confidence) * 100 * total)
    * (IF correct THEN 3 ELSE 2)

\* ContrarianScore that grants the 1.5 factor to both dimensions as soon as
\* either of them is correct
ContrarianScoreEitherCorrect(a, sentiment_count, prediction_count, total, sentiment_correct, prediction_correct) ==
  LET was_correct == sentiment_correct \/ prediction_correct
  IN  RoundDiv((IF IsMinority(sentiment_count, total)
                  THEN BaseScore(sentiment_count, total, a.confidence, was_correct)
                  ELSE 0)
               + (IF IsMinority(prediction_count, total)
                    THEN BaseScore(prediction_count, total, a.prediction_confidence,
                                   was_correct)
                    ELSE 0),
               2 * total)

\* lines 389-413 and 430: round(contrarian_score, 2), in hundredths
ContrarianScore(a, sentiment_count, prediction_count, total, sentiment_correct, prediction_correct) ==
  RoundDiv((IF IsMinority(sentiment_count, total)
              THEN BaseScore(sentiment_count, total, a.confidence, sentiment_correct)
              ELSE 0)
           + (IF IsMinority(prediction_count, total)
                THEN BaseScore(prediction_count, total, a.prediction_confidence,
                               prediction_correct)
                ELSE 0),
           2 * total)

\* a finding that also carries the prediction under 'earnings_prediction'
ContrarianOfWithEarningsPrediction(article, sentiment_counts, prediction_counts, total_articles, actual_result) ==
  LET a == article.analysis
      sentiment_count == sentiment_counts[a.sentiment]
      prediction_count == prediction_counts[a.earnings_prediction]
      available == actual_result # NoResult
      sentiment_correct == available /\ a.sentiment = ActualSentiment(actual_result)
      prediction_correct == available /\ a.earnings_prediction = actual_result.result
  IN  [author |-> article.author,
       sentiment |-> a.sentiment,
       prediction |-> a.earnings_prediction,
       earnings_prediction |-> a.earnings_prediction,
       sentiment_percentage |-> PercentTenths(sentiment_count, total_articles),
       prediction_percentage |-> PercentTenths(prediction_count, total_articles),
       was_minority_sentiment |-> IsMinority(sentiment_count, total_articles),
       was_minority_prediction |-> IsMinority(prediction_count, total_articles),
       sentiment_correct |-> sentiment_correct,
       prediction_correct |-> prediction_correct,
       contrarian_score |-> ContrarianScore(a, sentiment_count, prediction_count,
                                            total_articles, sentiment_correct,
                                            prediction_correct),
       confidence |-> Get(a.confidence, "unknown"),
       prediction_confidence |-> Get(a.prediction_confidence, "unknown"),
       actual_result_available |-> available]

\* lines 356-437: the dict appended for one article; it has the key
\* 'prediction' and no key 'earnings_prediction'
ContrarianOf(article, sentiment_counts, prediction_counts, total_articles, actual_result) ==
  LET a == article.analysis
      sentiment_count == sentiment_counts[a.sentiment]
      prediction_count == prediction_counts[a.earnings_prediction]
      available == actual_result # NoResult
      sentiment_correct == available /\ a.sentiment = ActualSentiment(actual_result)
      prediction_correct == available /\ a.earnings_prediction = actual_result.result
  IN  [author |-> article.author,
       sentiment |-> a.sentiment,
       prediction |-> a.earnings_prediction,
       earnings_prediction |-> Absent,
       sentiment_percentage |-> PercentTenths(sentiment_count, total_articles),
       prediction_percentage |-> PercentTenths(prediction_count, total_articles),
       was_minority_sentiment |-> IsMinority(sentiment_count, total_articles),
       was_minority_prediction |-> IsMinority(prediction_count, total_articles),
       sentiment_correct |-> sentiment_correct,
       prediction_correct |-> prediction_correct,
       contrarian_score |-> ContrarianScore(a, sentiment_count, prediction_count,
                                            total_articles, sentiment_correct,
                                            prediction_correct),
       confidence |-> Get(a.confidence, "unknown"),
       prediction_confidence |-> Get(a.prediction_confidence, "unknown"),
       actual_result_available |-> available]

\* one step of a stable sort by contrarian_score, highest first
InsertByScore(sorted, f) ==
  LET n == Cardinality({k \in 1..Len(sorted) :
                          sorted[k].contrarian_score >= f.contrarian_score})
  IN  SubSeq(sorted, 1, n) \o <<f>> \o SubSeq(sorted, n + 1, Len(sorted))

RECURSIVE SortByScore(_)
\* contrarians.sort(key=lambda x: x['contrarian_score'], reverse=True)
SortByScore(contrarians) ==
  IF contrarians = << >> THEN << >>
  ELSE InsertByScore(SortByScore(SubSeq(contrarians, 1, Len(contrarians) - 1)),
                     contrarians[Len(contrarians)])

\* ProductionContrarianEarningsAnalyzer.identify_contrarians
IdentifyContrarians(analyzed_articles, actual_result) ==
  LET valid_articles == ValidArticles(analyzed_articles)
      sentiment_counts == Counter(Sentiments(valid_articles))
      prediction_counts == Counter(Predictions(valid_articles))
      total_articles == TotalArticles(analyzed_articles)
      all == [k \in 1..Len(valid_articles) |->
                ContrarianOf(valid_articles[k], sentiment_counts, prediction_counts,
                             total_articles, actual_result)]
  IN  IF valid_articles = << >> THEN << >>
      ELSE SortByScore(SelectSeq(all, LAMBDA f : f.was_minority_sentiment
                                                   \/ f.was_minority_prediction))

\* ContrarianEarningsAnalyzer: count / total_articles < 0.3
OriginalIsMinority(count, total) == 10 * count < 3 * total

\* ContrarianEarningsAnalyzer, line 236: thresholds of 2 percent
OriginalActualSentiment(actual_result) ==
  IF actual_result.price_change_percent > 200 THEN "bullish"
  ELSE IF actual_result.price_change_percent < -200 THEN "bearish"
  ELSE "neutral"

\* ContrarianEarningsAnalyzer.identify_contrarians, lines 221-264, one article
OriginalContrarianOf(article, sentiment_counts, prediction_counts, total_articles, actual_result) ==
  LET a == article.analysis
      sentiment_count == sentiment_counts[a.sentiment]
      prediction_count == prediction_counts[a.earnings_prediction]
      available == actual_result # NoResult
      sentiment_correct == available /\ a.sentiment = OriginalActualSentiment(actual_result)
      prediction_correct == available /\ a.earnings_prediction = actual_result.result
      is_minority_sentiment == OriginalIsMinority(sentiment_count, total_articles)
      is_minority_prediction == OriginalIsMinority(prediction_count, total_articles)
  IN  [author |-> article.author,
       sentiment |-> a.sentiment,
       prediction |-> a.earnings_prediction,
       was_minority_sentiment |-> is_minority_sentiment,
       was_minority_prediction |-> is_minority_prediction,
       was_correct |-> sentiment_correct \/ prediction_correct,
       contrarian_score |->
         RoundDiv((IF is_minority_sentiment /\ sentiment_correct
                     THEN (total_articles - sentiment_count) * 10000 ELSE 0)
                  + (IF is_minority_prediction /\ prediction_correct
                       THEN (total_articles - prediction_count) * 10000 ELSE 0),
                  total_articles)]

\* ContrarianEarningsAnalyzer.identify_contrarians
OriginalIdentifyContrarians(analyzed_articles, actual_result) ==
  LET valid_articles == ValidArticles(analyzed_articles)
      sentiment_counts == Counter(Sentiments(valid_articles))
      prediction_counts == Counter(Predictions(valid_articles))
      total_articles == Len(valid_articles)
      all == [k \in 1..Len(valid_articles) |->
                OriginalContrarianOf(valid_articles[k], sentiment_counts,
                                     prediction_counts, total_articles, actual_result)]
  IN  SortByScore(SelectSeq(all, LAMBDA f : (f.was_minority_sentiment
                                              \/ f.was_minority_prediction)
                                            /\ f.was_correct))

\* Counter.most_common(1)[0][0]: the most frequent value, the first one
\* counted among equals
MostCommon(values) ==
  LET counts == Counter(values)
      k == CHOOSE k \in 1..Len(values) :
             /\ \A j \in 1..Len(values) : counts[values[j]] <= counts[values[k]]
             /\ \A j \in 1..(k - 1) : counts[values[j]] < counts[values[k]]
  IN  values[k]

\* SimplifiedContrarianAnalyzer.identify_contrarians, lines 275-315: the
\* ContrarianRecord of one article
ContrarianRecord(article, consensus_sentiment, consensus_prediction, actual_result) ==
  LET a == article.analysis
      available == actual_result # NoResult
  IN  [author |-> article.author,
       prediction |-> a.earnings_prediction,
       sentiment |-> a.sentiment,
       was_contrarian |-> a.sentiment # consensus_sentiment
                            \/ a.earnings_prediction # consensus_prediction,
       was_correct |-> available
                         /\ (a.earnings_prediction = actual_result.result
                               \/ a.sentiment = ActualSentiment(actual_result)),
       actual_result |-> IF available THEN actual_result.result ELSE "unknown"]

\* SimplifiedContrarianAnalyzer.identify_contrarians
SimplifiedIdentifyContrarians(analyzed_articles, actual_result) ==
  LET valid_articles == ValidArticles(analyzed_articles)
  IN  IF valid_articles = << >> THEN << >>
      ELSE [k \in 1..Len(valid_articles) |->
              ContrarianRecord(valid_articles[k],
                               MostCommon(Sentiments(valid_articles)),
                               MostCommon(Predictions(valid_articles)),
                               actual_result)]

(* ------------------------------- state ---------------------------------- *)

\* no identify_contrarians call yet
NoReport ==
  [analyzer |-> "none", analyzed_articles |-> << >>, actual_result |-> NoResult,
   total_articles |-> 0, sentiment_counts |-> << >>, prediction_counts |-> << >>,
   contrarians |-> << >>, outcome |-> "none", exported |-> TRUE]

\* no query operation yet
NoQuery == [op |-> "none", outcome |-> "none", ids |-> {}, rows |-> 0]

\* master_contrarian_database.csv right after _initialize_master_csv
EmptyLedger == [exists |-> TRUE, readable |-> TRUE, rows |-> << >>]

\* a master file pandas.read_csv cannot parse (zero bytes after a failed rewrite)
TruncatedLedger == [exists |-> TRUE, readable |-> FALSE, rows |-> << >>]

\* no master file in the database directory (removed after construction)
MissingLedger == [exists |-> FALSE, readable |-> FALSE, rows |-> << >>]

NoBatch == [report |-> PipelineReport, contrarians |-> << >>]

\* a fresh database directory and idle writer processes
InitWriter ==
  /\ master = EmptyLedger
  /\ hist = [id \in AuthorIds |-> << >>]
  /\ pc = [w \in Writers |-> "idle"]
  /\ batch = [w \in Writers |-> NoBatch]
  /\ updated = [w \in Writers |-> << >>]
  /\ idx = [w \in Writers |-> 0]
  /\ now = [w \in Writers |-> 0]
  /\ result = [w \in Writers |-> "none"]
  /\ clock = 0
  /\ used = 0
  /\ version = 0
  /\ seen = [w \in Writers |-> 0]
  /\ printed = {"Initialized master contrarian database"}

Init ==
  /\ InitWriter
  /\ analysis = NoReport
  /\ query = NoQuery

(* ---------------------- add_contrarian_analysis ------------------------- *)

\* lines 101-111: read report_data, load the master CSV, copy it
AddContrarianAnalysis(w, report_data, contrarians) ==
  /\ pc[w] = "idle"
  /\ used + Len(contrarians) <= MaxFindings
  /\ used' = used + Len(contrarians)
  /\ clock' = clock + 1
  /\ now' = [now EXCEPT ![w] = clock + 1]
  /\ batch' = [batch EXCEPT ![w] = [report |-> report_data, contrarians |-> contrarians]]
  /\ updated' = [updated EXCEPT ![w] = LoadExistingData(master)]
  /\ idx' = [idx EXCEPT ![w] = 1]
  /\ pc' = [pc EXCEPT ![w] = "loop"]
  /\ result' = [result EXCEPT ![w] = "running"]
  /\ seen' = [seen EXCEPT ![w] = version]
  /\ printed' = printed \cup LoadMessages(master)
                  \cup {"Updating master contrarian database",
                        "Found contrarian(s) to process"}
  /\ UNCHANGED <<master, hist, version, query>>

\* MergeContrarian that skips a finding for the event the author's entry already
\* names as its latest (a merge made idempotent per event)
MergeContrarianOncePerEvent(updated_data, report_data, contrarian, t) ==
  LET author_id == GenerateAuthorId(contrarian.author)
      was_correct == EvaluateContrarianAccuracy(contrarian, report_data.actual_result)
  IN  IF author_id \in DOMAIN updated_data
        THEN IF /\ updated_data[author_id].Latest_Company = report_data.company
                /\ updated_data[author_id].Latest_Earnings_Date = report_data.earnings_date
               THEN updated_data
               ELSE [updated_data EXCEPT ![author_id] =
                       UpdateExistingAuthor(@, report_data.company, report_data.symbol,
                                            report_data.earnings_date,
                                            DetermineContrarianType(contrarian),
                                            was_correct, contrarian.contrarian_score, t)]
        ELSE (author_id :> CreateNewAuthorRecord(contrarian.author, author_id,
                                     report_data.company, report_data.symbol,
                                     report_data.earnings_date,
                                     DetermineContrarianType(contrarian),
                                     was_correct, contrarian.contrarian_score, t))
             @@ updated_data

\* lines 114-132: the in-memory dict after one loop iteration
MergeContrarian(updated_data, report_data, contrarian, t) ==
  LET author_name == contrarian.author
      author_id == GenerateAuthorId(author_name)
      was_correct == EvaluateContrarianAccuracy(contrarian, report_data.actual_result)
      contrarian_type == DetermineContrarianType(contrarian)
      contrarian_score == contrarian.contrarian_score
  IN  IF author_id \in DOMAIN updated_data
        THEN [updated_data EXCEPT ![author_id] =
                UpdateExistingAuthor(@, report_data.company, report_data.symbol,
                                     report_data.earnings_date, contrarian_type,
                                     was_correct, contrarian_score, t)]
        ELSE (author_id :> CreateNewAuthorRecord(author_name, author_id,
                                     report_data.company, report_data.symbol,
                                     report_data.earnings_date, contrarian_type,
                                     was_correct, contrarian_score, t))
             @@ updated_data

\* _save_author_history opening the history file with mode 'w': the log is
\* rewritten with the new row alone
SaveAuthorHistoryWriteMode(histories, report_data, contrarian, t) ==
  LET author_id == GenerateAuthorId(contrarian.author)
      was_correct == EvaluateContrarianAccuracy(contrarian, report_data.actual_result)
  IN  [histories EXCEPT ![author_id] =
         <<HistoryRow(contrarian.author, report_data.company,
                      report_data.symbol, report_data.earnings_date,
                      contrarian, was_correct, t)>>]

\* _save_author_history that logs a finding only when its correctness is known
SaveAuthorHistoryResolvedOnly(histories, report_data, contrarian, t) ==
  LET author_id == GenerateAuthorId(contrarian.author)
      was_correct == EvaluateContrarianAccuracy(contrarian, report_data.actual_result)
  IN  IF was_correct = "None" THEN histories
      ELSE [histories EXCEPT ![author_id] =
              Append(@, HistoryRow(contrarian.author, report_data.company,
                                   report_data.symbol, report_data.earnings_date,
                                   contrarian, was_correct, t))]

\* _save_author_history: one row appended to the author's history file
SaveAuthorHistory(histories, report_data, contrarian, t) ==
  LET author_id == GenerateAuthorId(contrarian.author)
      was_correct == EvaluateContrarianAccuracy(contrarian, report_data.actual_result)
  IN  [histories EXCEPT ![author_id] =
         Append(@, HistoryRow(contrarian.author, report_data.company,
                              report_data.symbol, report_data.earnings_date,
                              contrarian, was_correct, t))]

\* program position after the loop body for contrarian number i
AfterContrarian(w, i) ==
  IF i < Len(batch[w].contrarians) THEN "loop" ELSE "save"

\* lines 113-136: one iteration of the loop over contrarians
ProcessContrarian(w) ==
  /\ pc[w] = "loop"
  /\ LET c == batch[w].contrarians[idx[w]]
     IN  /\ updated' = [updated EXCEPT ![w] =
                          MergeContrarian(@, batch[w].report, c, now[w])]
         /\ hist' = SaveAuthorHistory(hist, batch[w].report, c, now[w])
  /\ pc' = [pc EXCEPT ![w] = AfterContrarian(w, idx[w])]
  /\ idx' = [idx EXCEPT ![w] = @ + 1]
  /\ UNCHANGED <<master, batch, now, result, clock, used, version, seen, printed,
                 analysis, query>>

\* lines 138-142: rewrite the master CSV from the dict, print the summary
SaveMaster(w) ==
  /\ pc[w] = "save"
  /\ master' = SaveMasterDatabase(updated[w])
  /\ pc' = [pc EXCEPT ![w] = "idle"]
  /\ result' = [result EXCEPT ![w] = "ok"]
  /\ updated' = [updated EXCEPT ![w] = << >>]
  /\ idx' = [idx EXCEPT ![w] = 0]
  /\ batch' = [batch EXCEPT ![w] = NoBatch]
  /\ version' = version + 1
  /\ printed' = printed \cup {"Master database updated",
                              "Master Database Update Summary"}
  /\ UNCHANGED <<hist, now, clock, used, seen, analysis, query>>

(* ------------------------------ callers --------------------------------- *)

\* ContrarianCSVExporter.update_master_contrarian_database and the demo: the
\* report's own actual_result (possibly none) and its contrarian_analysts
UpdateMasterContrarianDatabase(w) ==
  /\ \E report_data \in DirectReports, contrarians \in Batches :
        AddContrarianAnalysis(w, report_data, contrarians)
  /\ UNCHANGED analysis

\* AutomatedPipeline._collect_contrarian_data: the contrarian dict built from one
\* row of contrarian_records.csv; it has no 'sentiment' key and a missing
\* prediction column gives 'unknown'
CollectContrarianData(row) ==
  [author |-> row.author,
   sentiment |-> Absent,
   earnings_prediction |-> Get(row.earnings_prediction, "unknown"),
   was_minority_sentiment |-> row.was_minority_sentiment,
   was_minority_prediction |-> row.was_minority_prediction,
   contrarian_score |-> row.contrarian_score]

\* AutomatedPipeline._update_master_contrarian_database
PipelineUpdateMasterContrarianDatabase(w) ==
  /\ \E rows \in Batches :
        AddContrarianAnalysis(w, PipelineReport,
                              [k \in 1..Len(rows) |-> CollectContrarianData(rows[k])])
  /\ UNCHANGED analysis

(* ------------------------------ analyzers ------------------------------- *)

\* what one identify_contrarians call leaves behind: its arguments, the
\* distributions it counted (empty when it returned before counting), the list
\* it returned, and whether the report built from it was handed on
AnalysisOf(analyzer, analyzed_articles, actual_result, contrarians, exported) ==
  [analyzer |-> analyzer,
   analyzed_articles |-> analyzed_articles,
   actual_result |-> actual_result,
   total_articles |-> TotalArticles(analyzed_articles),
   sentiment_counts |-> Counter(Sentiments(ValidArticles(analyzed_articles))),
   prediction_counts |-> Counter(Predictions(ValidArticles(analyzed_articles))),
   contrarians |-> contrarians,
   outcome |-> "returned",
   exported |-> exported]

\* ProductionContrarianEarningsAnalyzer.analyze_company_earnings, steps 4-5:
\* identify the contrarians and build the report
AnalyzeCompanyEarnings(analyzed_articles, actual_result) ==
  /\ analysis' = AnalysisOf("production", analyzed_articles, actual_result,
                            IdentifyContrarians(analyzed_articles, actual_result),
                            FALSE)
  /\ UNCHANGED <<writerVars, query>>

\* ContrarianEarningsAnalyzer.analyze_company_earnings: the report is saved as
\* JSON and printed, never handed to the ledger
OriginalAnalyzeCompanyEarnings(analyzed_articles, actual_result) ==
  /\ analysis' = AnalysisOf("original", analyzed_articles, actual_result,
                            OriginalIdentifyContrarians(analyzed_articles,
                                                        actual_result),
                            TRUE)
  /\ UNCHANGED <<writerVars, query>>

\* SimplifiedContrarianAnalyzer.analyze_company_earnings: the records go to the
\* analyzer's own contrarian_records.csv
SimplifiedAnalyzeCompanyEarnings(analyzed_articles, actual_result) ==
  /\ analysis' = AnalysisOf("simplified", analyzed_articles, actual_result,
                            SimplifiedIdentifyContrarians(analyzed_articles,
                                                          actual_result),
                            TRUE)
  /\ UNCHANGED <<writerVars, query>>

\* the keys of the production report add_contrarian_analysis reads
ReportData(a) ==
  [company |-> "Apple Inc.", symbol |-> "AAPL", earnings_date |-> "2024-01-25",
   actual_result |-> a.actual_result.result]

\* ContrarianCSVExporter.export_all on a production report, its last step
\* update_master_contrarian_database: the ledger is called only for a report
\* that holds contrarians
ExportAll(w) ==
  /\ ~analysis.exported
  /\ analysis' = [analysis EXCEPT !.exported = TRUE]
  /\ IF Len(analysis.contrarians) > 0
       THEN AddContrarianAnalysis(w, ReportData(analysis), analysis.contrarians)
       ELSE UNCHANGED <<writerVars, query>>

(* ------------------------------- queries -------------------------------- *)

\* the numeric columns get_top_contrarians is asked to sort by
SortColumns == {"Contrarian_Success_Rate", "Overall_Contrarian_Score"}

\* the value of a column as pandas reads it; an empty cell and NaN rank last
SortKey(row, sort_by) ==
  LET v == IF sort_by = "Contrarian_Success_Rate"
             THEN ReadRow(row).Contrarian_Success_Rate
             ELSE row.Overall_Contrarian_Score
  IN  IF v = NaNRate THEN -1 ELSE v

\* df.nlargest(limit, sort_by): the Author_IDs of the rows returned. Equal
\* values are kept in file order, which the ledger table here does not carry,
\* so every choice among equal values is possible
NLargest(rows, limit, sort_by) ==
  { ids \in SUBSET DOMAIN rows :
      /\ Cardinality(ids) = IF limit < Cardinality(DOMAIN rows)
                               THEN limit ELSE Cardinality(DOMAIN rows)
      /\ \A a \in ids, b \in DOMAIN rows \ ids :
            SortKey(rows[a], sort_by) >= SortKey(rows[b], sort_by) }

QueryResult(op, outcome, ids, count) ==
  [op |-> op, outcome |-> outcome, ids |-> ids, rows |-> count]

\* what get_top_contrarians can return or raise on a master file: no file
\* gives an empty DataFrame; read_csv raises on an unparsable file; the columns
\* of a file holding only the header line are of dtype object, for which
\* nlargest raises TypeError
TopContrarians(file, limit, sort_by) ==
  IF ~file.exists
    THEN {QueryResult("get_top_contrarians", "returned", {}, 0)}
  ELSE IF ~file.readable \/ DOMAIN file.rows = {}
    THEN {QueryResult("get_top_contrarians", "raised", {}, 0)}
  ELSE {QueryResult("get_top_contrarians", "returned", ids, Cardinality(ids)) :
          ids \in NLargest(file.rows, limit, sort_by)}

\* GetTopContrarians that runs _initialize_master_csv first when no master
\* file is there
GetTopContrariansInitializing(limit, sort_by) ==
  /\ master' = IF master.exists THEN master ELSE EmptyLedger
  /\ query' \in TopContrarians(master', limit, sort_by)
  /\ UNCHANGED <<hist, pc, batch, updated, idx, now, result, clock, used, version,
                 seen, printed, analysis>>

\* get_top_contrarians
GetTopContrarians(limit, sort_by) ==
  /\ query' \in TopContrarians(master, limit, sort_by)
  /\ UNCHANGED <<writerVars, analysis>>

\* get_repeat_contrarians selecting the rows with more than min_instances
GetRepeatContrariansStrictlyMore(min_instances) ==
  /\ query' =
       IF ~master.exists
         THEN QueryResult("get_repeat_contrarians", "returned", {}, 0)
       ELSE IF ~master.readable
         THEN QueryResult("get_repeat_contrarians", "raised", {}, 0)
       ELSE LET ids == {id \in DOMAIN master.rows :
                          master.rows[id].Total_Contrarian_Instances > min_instances}
            IN  QueryResult("get_repeat_contrarians", "returned", ids, Cardinality(ids))
  /\ UNCHANGED <<writerVars, analysis>>

\* get_repeat_contrarians: df[df['Total_Contrarian_Instances'] >= min_instances]
GetRepeatContrarians(min_instances) ==
  /\ query' =
       IF ~master.exists
         THEN QueryResult("get_repeat_contrarians", "returned", {}, 0)
       ELSE IF ~master.readable
         THEN QueryResult("get_repeat_contrarians", "raised", {}, 0)
       ELSE LET ids == {id \in DOMAIN master.rows :
                          master.rows[id].Total_Contrarian_Instances >= min_instances}
            IN  QueryResult("get_repeat_contrarians", "returned", ids, Cardinality(ids))
  /\ UNCHANGED <<writerVars, analysis>>

\* get_author_history: the rows of <author_id>_history.csv, None when the
\* author has no history file
GetAuthorHistory(author_name) ==
  /\ LET author_id == GenerateAuthorId(author_name)
     IN  query' =
           IF author_id \in DOMAIN hist /\ Len(hist[author_id]) > 0
             THEN QueryResult("get_author_history", "returned", {author_id},
                              Len(hist[author_id]))
             ELSE QueryResult("get_author_history", "returned_none", {}, 0)
  /\ UNCHANGED <<writerVars, analysis>>

\* the master file is removed from the database directory between calls
LedgerRemoved ==
  /\ master.exists
  /\ \A w \in Writers : pc[w] = "idle"
  /\ master' = MissingLedger
  /\ version' = version + 1
  /\ UNCHANGED <<hist, pc, batch, updated, idx, now, result, clock, used, seen, printed,
                 analysis, query>>

(* --------------------------- I/O failures -------------------------------- *)

\* the call leaves add_contrarian_analysis by an exception
Raise(w) ==
  /\ pc' = [pc EXCEPT ![w] = "idle"]
  /\ result' = [result EXCEPT ![w] = "raised"]
  /\ updated' = [updated EXCEPT ![w] = << >>]
  /\ idx' = [idx EXCEPT ![w] = 0]
  /\ batch' = [batch EXCEPT ![w] = NoBatch]

\* open(history_file, 'a') or the row write raises OSError inside the loop
HistoryWriteFails(w) ==
  /\ pc[w] = "loop"
  /\ Raise(w)
  /\ UNCHANGED <<master, hist, now, clock, used, version, seen, printed, analysis, query>>

\* open(master_csv_path, 'w') raises (file untouched), or the file is already
\* truncated when the write raises
MasterWriteFails(w) ==
  /\ pc[w] = "save"
  /\ master' \in {master, TruncatedLedger}
  /\ version' = IF master' = master THEN version ELSE version + 1
  /\ Raise(w)
  /\ UNCHANGED <<hist, now, clock, used, seen, printed, analysis, query>>

\* the master file becomes unreadable for pandas.read_csv between calls
\* (damaged bytes, lost permission); its content is still on disk
LedgerBecomesUnreadable ==
  /\ master.readable
  /\ DOMAIN master.rows # {}
  /\ master' = [master EXCEPT !.readable = FALSE]
  /\ version' = version + 1
  /\ UNCHANGED <<hist, pc, batch, updated, idx, now, result, clock, used, seen, printed,
                 analysis, query>>

(* --------------------------- specifications ------------------------------ *)

WriterStep(w) ==
  \/ UpdateMasterContrarianDatabase(w)
  \/ PipelineUpdateMasterContrarianDatabase(w)
  \/ ProcessContrarian(w)
  \/ SaveMaster(w)

\* one writer process, no I/O failure
Next == WriterStep(1)

Spec == Init /\ [][Next]_vars

\* one writer process; file operations may fail
CallUnderFaults ==
  /\ UpdateMasterContrarianDatabase(1) \/ PipelineUpdateMasterContrarianDatabase(1)
  /\ used' <= MaxFindingsFault

NextFault ==
  \/ CallUnderFaults
  \/ ProcessContrarian(1)
  \/ SaveMaster(1)
  \/ HistoryWriteFails(1)
  \/ MasterWriteFails(1)
  \/ LedgerBecomesUnreadable

SpecFault == Init /\ [][NextFault]_vars

\* two writer processes on the same database directory, no I/O failure
ConcurrentCall(w) ==
  /\ UpdateMasterContrarianDatabase(w) \/ PipelineUpdateMasterContrarianDatabase(w)
  /\ used' <= MaxFindingsConc

NextConc ==
  \E w \in Writers :
     \/ ConcurrentCall(w)
     \/ ProcessContrarian(w)
     \/ SaveMaster(w)

SpecConc == Init /\ [][NextConc]_vars

\* the three analyzers, each applied once to the analyzed articles and the
\* actual result the run starts with; no ledger
InitAnalyzers ==
  /\ InitWriter
  /\ \E analyzed_articles \in ArticleBatches, actual_result \in ActualResults :
        analysis = [NoReport EXCEPT !.analyzed_articles = analyzed_articles,
                                    !.actual_result = actual_result,
                                    !.outcome = "pending"]
  /\ query = NoQuery

ProductionAnalysis ==
  /\ analysis.outcome = "pending"
  /\ AnalyzeCompanyEarnings(analysis.analyzed_articles, analysis.actual_result)

OriginalAnalysis ==
  /\ analysis.outcome = "pending"
  /\ OriginalAnalyzeCompanyEarnings(analysis.analyzed_articles, analysis.actual_result)

SimplifiedAnalysis ==
  /\ analysis.outcome = "pending"
  /\ SimplifiedAnalyzeCompanyEarnings(analysis.analyzed_articles,
                                      analysis.actual_result)

NextAnalyzers ==
  \/ ProductionAnalysis
  \/ OriginalAnalysis
  \/ SimplifiedAnalysis

SpecAnalyzers == InitAnalyzers /\ [][NextAnalyzers]_vars

\* production runs whose reports are exported into the ledger, one writer
SampleAnalysis ==
  /\ analysis.exported
  /\ pc[1] = "idle"
  /\ \E analyzed_articles \in SampleBatches, actual_result \in ActualResults :
        AnalyzeCompanyEarnings(analyzed_articles, actual_result)
  /\ used + Len(analysis'.contrarians) <= MaxFindingsAnalysis

NextAnalysis ==
  \/ SampleAnalysis
  \/ ExportAll(1)
  \/ ProcessContrarian(1)
  \/ SaveMaster(1)

SpecAnalysis == Init /\ [][NextAnalysis]_vars

\* the names a caller may ask the history of
QueryNames == {JohnSmith, johnsmith, JohnSmithWide, MikeDavis}

\* one writer process fills the ledger, the file may be removed, and one query
\* operation is run at any moment; no new call starts after it
CallBeforeQuery ==
  /\ query = NoQuery
  /\ UpdateMasterContrarianDatabase(1) \/ PipelineUpdateMasterContrarianDatabase(1)
  /\ used' <= MaxFindingsQuery

TopQuery ==
  /\ query = NoQuery
  /\ \E limit \in 1..MaxLimit, sort_by \in SortColumns :
        GetTopContrarians(limit, sort_by)

RepeatQuery ==
  /\ query = NoQuery
  /\ \E min_instances \in 1..MaxLimit : GetRepeatContrarians(min_instances)

HistoryQuery ==
  /\ query = NoQuery
  /\ \E author_name \in QueryNames : GetAuthorHistory(author_name)

NextQuery ==
  \/ CallBeforeQuery
  \/ ProcessContrarian(1)
  \/ SaveMaster(1)
  \/ LedgerRemoved
  \/ TopQuery
  \/ RepeatQuery
  \/ HistoryQuery

SpecQuery == Init /\ [][NextQuery]_vars

(* ------------------------- reading the ledger ---------------------------- *)

Calls(data, id) == IF id \in DOMAIN data THEN data[id].Total_Earnings_Calls ELSE 0

Instances(data, id) ==
  IF id \in DOMAIN data THEN data[id].Total_Contrarian_Instances ELSE 0

Successes(data, id) ==
  IF id \in DOMAIN data THEN data[id].Successful_Contrarian_Calls ELSE 0

Failures(data, id) ==
  IF id \in DOMAIN data THEN data[id].Failed_Contrarian_Calls ELSE 0

\* number of findings of a batch whose author has identity id
CountFor(contrarians, id) ==
  Cardinality({k \in 1..Len(contrarians) : GenerateAuthorId(contrarians[k].author) = id})

\* every entry on disk and in the dict of a running call
AllRows ==
  {master.rows[id] : id \in DOMAIN master.rows}
    \cup UNION {{updated[w][id] : id \in DOMAIN updated[w]} : w \in Writers}

\* the step of writer w that ends a call by rewriting the master file
SaveStep(w) == pc[w] = "save" /\ pc'[w] = "idle" /\ result'[w] = "ok"

\* the step of writer w that merges one finding
MergeStep(w) == pc[w] = "loop" /\ idx'[w] = idx[w] + 1

CurrentContrarian(w) == batch[w].contrarians[idx[w]]

CurrentId(w) == GenerateAuthorId(CurrentContrarian(w).author)

(* ------------------------------- claims ---------------------------------- *)

\* C1: a completed merge raises Total_Earnings_Calls and
\* Total_Contrarian_Instances of every identity by exactly the number of
\* findings the batch holds for it (absent identities start from 0); nothing is
\* deduplicated.
C1_Additive ==
  [][\A w \in Writers : SaveStep(w) =>
       \A id \in AuthorIds :
          /\ Calls(master'.rows, id)
               = Calls(master.rows, id) + CountFor(batch[w].contrarians, id)
          /\ Instances(master'.rows, id)
               = Instances(master.rows, id) + CountFor(batch[w].contrarians, id)]_vars

\* the same finding merged by two identical single-finding batches into the
\* empty ledger: 2 instances, two history rows equal up to their time
C1_MergedTwice ==
  /\ clock = 2 /\ pc[1] = "idle" /\ result[1] = "ok"
  /\ \E id \in DOMAIN master.rows :
        /\ master.rows[id].Total_Contrarian_Instances = 2
        /\ master.rows[id].Total_Earnings_Calls = 2
        /\ Len(hist[id]) = 2
        /\ hist[id][1].Date_Added = 1 /\ hist[id][2].Date_Added = 2
        /\ [hist[id][2] EXCEPT !.Date_Added = 1] = hist[id][1]
        /\ \A other \in AuthorIds \ {id} : hist[other] = << >>

\* C2: once an identity has an entry in the master file, every later step of
\* add_contrarian_analysis keeps an entry for it.
C2_NeverDeleted ==
  [][\A id \in AuthorIds :
       id \in DOMAIN master.rows => id \in DOMAIN master'.rows]_vars

\* C3: a call that raised has written none of its findings: no history row and
\* no master entry carries the time of that call.
C3_AllOrNothing ==
  \A w \in Writers : result[w] = "raised" =>
     \A id \in AuthorIds :
        /\ \A k \in 1..Len(hist[id]) : hist[id][k].Date_Added # now[w]
        /\ id \in DOMAIN master.rows => master.rows[id].Last_Updated # now[w]

\* C4: while the master file is unreadable no call proceeds to the merge loop
\* and no step rewrites the file.
C4_UnreadableIsFatal ==
  [][~master.readable =>
       /\ master' = master
       /\ \A w \in Writers : pc[w] = "idle" => pc'[w] = "idle"]_vars

\* C5: a writer that loaded the master file before the other writer rewrote it
\* saves a table that holds none of the other writer's updates; if it loaded
\* the empty ledger, the saved counters are those of its own batch alone.
C5_LostUpdate ==
  [][\A w \in Writers : (SaveStep(w) /\ seen[w] < version) =>
       /\ \A u \in Writers \ {w} : \A id \in DOMAIN master'.rows :
             master'.rows[id].Last_Updated # now[u]
       /\ seen[w] = 0 =>
             \A id \in AuthorIds :
                Instances(master'.rows, id) = CountFor(batch[w].contrarians, id)]_vars

\* both writers loaded the empty ledger before either saved, both calls ended
\* normally, and the master table counts fewer instances than were logged
C5_UpdateLost ==
  /\ clock = 2 /\ version = 2
  /\ \A w \in Writers : pc[w] = "idle" /\ result[w] = "ok" /\ seen[w] = 0
  /\ \E id \in AuthorIds : Instances(master.rows, id) < Len(hist[id])

\* C6: Contrarian_Success_Rate is None exactly while successes + failures = 0,
\* otherwise the percentage of successes (at the stored precision) within
\* [0,100]; it is never NaN.
C6_SuccessRate ==
  \A row \in AllRows :
     LET resolved == row.Successful_Contrarian_Calls + row.Failed_Contrarian_Calls
         rate == row.Contrarian_Success_Rate
     IN  /\ rate # NaNRate
         /\ resolved = 0 <=> rate = NoneRate
         /\ resolved > 0 =>
              /\ rate = PercentTenths(row.Successful_Contrarian_Calls, resolved)
              /\ 0 <= rate /\ rate <= 1000

\* C7: Consistency_Score = Total_Contrarian_Instances / Total_Earnings_Calls
\* x 100 exactly, within [0,100].
C7_Consistency ==
  \A row \in AllRows :
     /\ row.Consistency_Score * row.Total_Earnings_Calls
          = 1000 * row.Total_Contrarian_Instances
     /\ 0 <= row.Consistency_Score /\ row.Consistency_Score <= 1000

\* an entry whose consistency was recomputed by an update
C7_Recomputed ==
  \E id \in DOMAIN master.rows :
     /\ master.rows[id].Total_Earnings_Calls >= 2
     /\ master.rows[id].Repeat_Contrarian_Count >= 1

\* the risk tier as the ledger's merge algorithm (step 8) words it
RiskTierRule(success_rate, instances, consistency) ==
  IF instances < 2 \/ success_rate = NoneRate \/ success_rate = NaNRate
    THEN "Unknown"
  ELSE IF success_rate >= 700 /\ instances >= 3 THEN "Low_Risk"
  ELSE IF success_rate < 300 \/ consistency < 200 THEN "High_Risk"
  ELSE "Medium_Risk"

\* C8: the tier stored by an update is RiskTierRule of the entry's success
\* rate, instances and consistency, whatever merges and reloads produced them.
C8_RiskTier ==
  \A row \in AllRows :
     row.Total_Contrarian_Instances >= 2 =>
        row.Risk_Level = RiskTierRule(row.Contrarian_Success_Rate,
                                      row.Total_Contrarian_Instances,
                                      row.Consistency_Score)

\* C9: merging a finding of unknown correctness leaves the author's success
\* and failure counters as they were and adds one appearance.
C9_UnknownKeepsCounters ==
  [][\A w \in Writers :
       (MergeStep(w)
          /\ EvaluateContrarianAccuracy(CurrentContrarian(w),
                                        batch[w].report.actual_result) = "None") =>
          /\ Successes(updated'[w], CurrentId(w)) = Successes(updated[w], CurrentId(w))
          /\ Failures(updated'[w], CurrentId(w)) = Failures(updated[w], CurrentId(w))
          /\ Calls(updated'[w], CurrentId(w)) = Calls(updated[w], CurrentId(w)) + 1]_vars

\* an author with a resolved call whose latest saved finding was of unknown
\* correctness
C9_UnknownAfterResolved ==
  \E id \in DOMAIN master.rows :
     /\ pc[1] = "idle"
     /\ master.rows[id].Total_Earnings_Calls >= 2
     /\ master.rows[id].Latest_Was_Correct = "Unknown"
     /\ master.rows[id].Successful_Contrarian_Calls
          + master.rows[id].Failed_Contrarian_Calls = 1

\* the event of the report has no resolved actual outcome
Unresolved(actual_result) ==
  actual_result = NoActual \/ LowerWord(actual_result) = "unknown"

\* C10: a finding for an event without resolved outcome is merged as unknown:
\* no failed call is counted and the history row is not marked incorrect.
C10_UnresolvedIsUnknown ==
  [][\A w \in Writers :
       (MergeStep(w) /\ Unresolved(batch[w].report.actual_result)) =>
          /\ Failures(updated'[w], CurrentId(w)) = Failures(updated[w], CurrentId(w))
          /\ hist'[CurrentId(w)][Len(hist'[CurrentId(w)])].Was_Correct = "Unknown"]_vars

RECURSIVE SumCounts(_)
\* sum(counts.values())
SumCounts(counts) ==
  IF DOMAIN counts = {} THEN 0
  ELSE LET v == CHOOSE v \in DOMAIN counts : TRUE
       IN  counts[v] + SumCounts([u \in DOMAIN counts \ {v} |-> counts[u]])

\* the step that runs identify_contrarians for a new report
AnalysisStep == analysis.exported /\ ~analysis'.exported

\* the finding's sentiment or its predicted outcome matches the actual outcome
\* the analyzed report carries
CorrectOnEither(contrarian) ==
  /\ analysis.actual_result # NoResult
  /\ \/ contrarian.sentiment = ActualSentiment(analysis.actual_result)
     \/ contrarian.prediction = analysis.actual_result.result

\* C11: with an actual outcome, merging a finding whose sentiment matches the
\* sentiment of the outcome or whose prediction matches its result adds one to
\* the author's Successful_Contrarian_Calls.
C11_CorrectIfEither ==
  [][\A w \in Writers :
       (MergeStep(w) /\ CorrectOnEither(CurrentContrarian(w))) =>
          Successes(updated'[w], CurrentId(w))
            = Successes(updated[w], CurrentId(w)) + 1]_vars

\* C12: merging a finding whose two minority flags are false changes no entry
\* and appends no history row.
C12_NoFlagNoMerge ==
  [][\A w \in Writers :
       (MergeStep(w)
          /\ ~CurrentContrarian(w).was_minority_sentiment
          /\ ~CurrentContrarian(w).was_minority_prediction) =>
          /\ updated'[w] = updated[w]
          /\ hist' = hist]_vars

\* the contribution of one dimension to a score, as a numerator over
\* 2 * total hundredths: nothing unless minority, (1 - share) * 100 + bonus,
\* times 1.5 when an outcome exists and the dimension is correct
DimensionTerm(minority, count, total, bonus, correct) ==
  IF ~minority THEN 0
  ELSE ((total - count) * 10000 + bonus * 100 * total) * (IF correct THEN 3 ELSE 2)

\* C13: every finding of the production identify_contrarians has as score the
\* sum of its minority dimensions' terms, rounded to two decimals, and the
\* score is not negative.
C13_Score ==
  analysis.analyzer = "production" =>
    \A k \in 1..Len(analysis.contrarians) :
       LET f == analysis.contrarians[k]
           total == analysis.total_articles
           available == analysis.actual_result # NoResult
       IN  /\ f.contrarian_score
                = RoundDiv(
                    DimensionTerm(f.was_minority_sentiment,
                                  analysis.sentiment_counts[f.sentiment], total,
                                  ConfidenceBonus(f.confidence),
                                  available /\ f.sentiment
                                     = ActualSentiment(analysis.actual_result))
                    + DimensionTerm(f.was_minority_prediction,
                                    analysis.prediction_counts[f.prediction], total,
                                    ConfidenceBonus(f.prediction_confidence),
                                    available /\ f.prediction
                                       = analysis.actual_result.result),
                    2 * total)
           /\ f.contrarian_score >= 0

\* a finding minority on both dimensions whose prediction was correct and whose
\* sentiment was not
C13_OneDimensionCorrect ==
  /\ analysis.analyzer = "production"
  /\ \E k \in 1..Len(analysis.contrarians) :
        /\ analysis.contrarians[k].was_minority_sentiment
        /\ analysis.contrarians[k].was_minority_prediction
        /\ analysis.contrarians[k].prediction_correct
        /\ ~analysis.contrarians[k].sentiment_correct

\* C14: after the production or the original identify_contrarians counted a
\* batch, the sentiment counts and the prediction counts each sum to
\* total_articles.
C14_CountsSum ==
  analysis.analyzer \in {"production", "original"} =>
    /\ SumCounts(analysis.sentiment_counts) = analysis.total_articles
    /\ SumCounts(analysis.prediction_counts) = analysis.total_articles

\* a counted batch with two sentiments, two predictions and an article whose
\* analysis failed
C14_MixedBatch ==
  /\ analysis.analyzer \in {"production", "original"}
  /\ Cardinality(DOMAIN analysis.sentiment_counts) = 2
  /\ Cardinality(DOMAIN analysis.prediction_counts) = 2
  /\ analysis.total_articles < Len(analysis.analyzed_articles)

\* C15: for a batch with exactly one analyzed opinion no analyzer returns a
\* contrarian finding: the production and the original list are empty, the
\* simplified record is not marked contrarian.
C15_SingleOpinion ==
  (analysis.outcome = "returned" /\ analysis.total_articles = 1) =>
     IF analysis.analyzer = "simplified"
       THEN \A k \in 1..Len(analysis.contrarians) :
               ~analysis.contrarians[k].was_contrarian
       ELSE analysis.contrarians = << >>

\* the simplified analyzer evaluated a single opinion that was correct
C15_SingleCorrectOpinion ==
  /\ analysis.outcome = "returned"
  /\ analysis.analyzer = "simplified"
  /\ analysis.total_articles = 1
  /\ Len(analysis.contrarians) = 1
  /\ analysis.contrarians[1].was_correct

\* C16: identify_contrarians on a batch without opinions ends with
\* EmptyBatchError, and the step leaves the master file and the history logs
\* as they were.
C16_EmptyBatchError ==
  [][(AnalysisStep /\ analysis'.total_articles = 0) =>
        /\ analysis'.outcome = "EmptyBatchError"
        /\ master' = master
        /\ hist' = hist]_vars

PunctuationChars == {".", ",", "'", "-"}

RECURSIVE NormalizedIdentity(_, _)
\* the case-folded, whitespace-collapsed, punctuation-stripped form of a name,
\* appended to the part already normalized
NormalizedIdentity(done, name) ==
  IF name = << >> THEN done
  ELSE LET c == LowerChar(Head(name))
       IN  IF c \in PunctuationChars THEN NormalizedIdentity(done, Tail(name))
           ELSE IF c = " " /\ done # << >> /\ done[Len(done)] = " "
             THEN NormalizedIdentity(done, Tail(name))
           ELSE NormalizedIdentity(Append(done, c), Tail(name))

\* C17: a finding whose author differs from the name of an existing entry only
\* in case, amount of whitespace or punctuation is merged into that entry and
\* its history log.
C17_NormalizedKey ==
  [][\A w \in Writers : MergeStep(w) =>
       \A id \in DOMAIN updated[w] :
          NormalizedIdentity(<< >>, updated[w][id].Author_Name)
             = NormalizedIdentity(<< >>, CurrentContrarian(w).author)
          => /\ CurrentId(w) = id
             /\ DOMAIN updated'[w] = DOMAIN updated[w]
             /\ Len(hist'[id]) = Len(hist[id]) + 1]_vars

\* the step that runs a query operation
QueryStep == query' # query

\* the master file is missing, or initialized and without entry
EmptyOrMissing == ~master.exists \/ (master.readable /\ DOMAIN master.rows = {})

\* C18: on a missing master file and on an initialized one without entry every
\* query operation returns without error, and the two table queries return no
\* row.
C18_EmptyLedgerTolerated ==
  [][(QueryStep /\ EmptyOrMissing) =>
        /\ query'.outcome # "raised"
        /\ query'.op # "get_author_history" => query'.ids = {} /\ query'.rows = 0]_vars

\* C19: a query operation leaves the master file and every history log as they
\* were.
C19_PureRead ==
  [][QueryStep => master' = master /\ hist' = hist]_vars

\* get_top_contrarians returned two entries of a ledger that has history logs
C19_TopTwoReturned ==
  /\ query.op = "get_top_contrarians"
  /\ query.outcome = "returned"
  /\ query.rows = 2
  /\ \A id \in query.ids : id \in DOMAIN master.rows /\ Len(hist[id]) > 0

\* C20: the first finding merged for an identity without entry creates an
\* entry with 1 appearance, 1 instance, the success and failure counters of the
\* finding's correctness (both 0 when unknown), total and average score equal
\* to the finding's score, the finding's company as only company, consistency
\* 100 and risk tier New.
C20_FirstFinding ==
  [][\A w \in Writers :
       (MergeStep(w) /\ CurrentId(w) \notin DOMAIN updated[w]) =>
          LET c == CurrentContrarian(w)
              was_correct == EvaluateContrarianAccuracy(c, batch[w].report.actual_result)
              entry == updated'[w][CurrentId(w)]
          IN  /\ entry.Total_Earnings_Calls = 1
              /\ entry.Total_Contrarian_Instances = 1
              /\ entry.Successful_Contrarian_Calls = (IF was_correct = "True" THEN 1 ELSE 0)
              /\ entry.Failed_Contrarian_Calls = (IF was_correct = "False" THEN 1 ELSE 0)
              /\ entry.Overall_Contrarian_Score = c.contrarian_score
              /\ entry.Average_Contrarian_Score_Per_Call = c.contrarian_score
              /\ entry.Companies_List = <<batch[w].report.company>>
              /\ entry.Total_Companies_Covered = 1
              /\ entry.Consistency_Score = 1000
              /\ entry.Risk_Level = "New"]_vars

\* a saved ledger with one entry created from a finding that was wrong and one
\* created from a finding of unknown correctness
C20_NewEntries ==
  /\ pc[1] = "idle"
  /\ \E id1, id2 \in DOMAIN master.rows :
        /\ master.rows[id1].Risk_Level = "New"
        /\ master.rows[id1].Failed_Contrarian_Calls = 1
        /\ master.rows[id1].Overall_Contrarian_Score > 0
        /\ master.rows[id2].Risk_Level = "New"
        /\ master.rows[id2].Latest_Was_Correct = "Unknown"

(* ------------------------- C21: append-only logs ------------------------ *)

IsPrefix(s, t) == Len(s) <= Len(t) /\ SubSeq(t, 1, Len(s)) = s

\* C21: every author history log is append-only. A merge step appends exactly
\* one row to the log of the finding's identity and leaves every other log
\* alone; no other step changes a log; so the content of a log at any earlier
\* time is a prefix of its content at any later time.
C21_HistoryAppendOnly ==
  [][/\ \A id \in AuthorIds : IsPrefix(hist[id], hist'[id])
     /\ \A w \in Writers :
          MergeStep(w) =>
            /\ Len(hist'[CurrentId(w)]) = Len(hist[CurrentId(w)]) + 1
            /\ \A id \in AuthorIds \ {CurrentId(w)} : hist'[id] = hist[id]
     /\ (\A w \in Writers : ~MergeStep(w)) => hist' = hist]_vars

\* a log that received rows from two different calls
C21_LogOfTwoCalls ==
  \E id \in AuthorIds :
     /\ Len(hist[id]) >= 2
     /\ hist[id][1].Date_Added # hist[id][Len(hist[id])].Date_Added

(* ------------------ C22: appearances equal instances -------------------- *)

\* C22: on every entry the ledger holds, on disk or in a running call,
\* Total_Earnings_Calls equals Total_Contrarian_Instances, Consistency_Score is
\* 100, and the risk-tier test 'consistency < 20' is false.
C22_CallsEqualInstances ==
  \A row \in AllRows :
     /\ row.Total_Earnings_Calls = row.Total_Contrarian_Instances
     /\ row.Consistency_Score = 1000
     /\ ~(row.Consistency_Score < 200)

\* an entry updated twice after its creation, once by a finding of unknown
\* correctness, that went through the risk-tier computation with a low rate
C22_ThreeAppearances ==
  \E id \in DOMAIN master.rows :
     /\ master.rows[id].Total_Contrarian_Instances = 3
     /\ master.rows[id].Successful_Contrarian_Calls
          + master.rows[id].Failed_Contrarian_Calls < 3
     /\ master.rows[id].Risk_Level = "High_Risk"

(* ------------------ C23: log length equals instances -------------------- *)

\* C23: with one writer and no I/O failure, starting from the empty ledger,
\* whenever no call is running the number of rows in an identity's history
\* log equals its Total_Contrarian_Instances in the master ledger (zero when
\* it has no entry); inside a call the same holds for the dict being updated.
C23_LogLengthIsInstances ==
  \A id \in AuthorIds :
     /\ pc[1] = "idle" => Len(hist[id]) = Instances(master.rows, id)
     /\ pc[1] \in {"loop", "save"} => Len(hist[id]) = Instances(updated[1], id)

\* a saved ledger with an identity merged twice and another merged once
C23_TwoLogs ==
  /\ pc[1] = "idle"
  /\ \E id1, id2 \in DOMAIN master.rows :
        /\ Len(hist[id1]) = 2
        /\ Len(hist[id2]) = 1
        /\ hist[id1][2].Was_Correct = "Unknown"

(* ------------------------ C24: frame of a merge ------------------------- *)

\* the identities that have a finding in the batch of the running call
BatchIds(w) ==
  {GenerateAuthorId(batch[w].contrarians[k].author) :
     k \in 1..Len(batch[w].contrarians)}

\* C24: a merge changes only the entries of identities that have a finding in
\* the batch. For every other identity in the ledger the rewritten master file
\* holds the entry with the same value in every field, and no step of the call
\* changes its history log.
C24_OthersUntouched ==
  [][\A w \in Writers :
       /\ SaveStep(w) =>
            \A id \in DOMAIN master.rows \ BatchIds(w) :
               /\ id \in DOMAIN master'.rows
               /\ master'.rows[id] = master.rows[id]
       /\ pc[w] \in {"loop", "save"} =>
            \A id \in AuthorIds \ BatchIds(w) : hist'[id] = hist[id]]_vars

\* the same frame with the success rate of the untouched entry compared as
\* "defined or not" instead of cell by cell
C24_OthersUntouchedButRate ==
  [][\A w \in Writers :
       /\ SaveStep(w) =>
            \A id \in DOMAIN master.rows \ BatchIds(w) :
               /\ id \in DOMAIN master'.rows
               /\ [master'.rows[id] EXCEPT !.Contrarian_Success_Rate = 0]
                    = [master.rows[id] EXCEPT !.Contrarian_Success_Rate = 0]
               /\ (master'.rows[id].Contrarian_Success_Rate \in {NoneRate, NaNRate})
                    = (master.rows[id].Contrarian_Success_Rate \in {NoneRate, NaNRate})
       /\ pc[w] \in {"loop", "save"} =>
            \A id \in AuthorIds \ BatchIds(w) : hist'[id] = hist[id]]_vars

(* --------------- C25: production findings stay unresolved --------------- *)

\* C25: a finding of the production analyzer has a 'prediction' key and no
\* 'earnings_prediction' key, so the merge of such a finding evaluates its
\* correctness as unknown whatever the actual outcome is: the identity's
\* Successful_Contrarian_Calls and Failed_Contrarian_Calls are unchanged and
\* its success rate is still undefined after the merge.
C25_ProductionFindingsUnknown ==
  [][\A w \in Writers :
       MergeStep(w) =>
         LET c == CurrentContrarian(w)
             id == CurrentId(w)
         IN  /\ c.prediction # Absent
             /\ c.earnings_prediction = Absent
             /\ EvaluateContrarianAccuracy(c, batch[w].report.actual_result) = "None"
             /\ Successes(updated'[w], id) = Successes(updated[w], id)
             /\ Failures(updated'[w], id) = Failures(updated[w], id)
             /\ updated'[w][id].Contrarian_Success_Rate \in {NoneRate, NaNRate}
             /\ updated'[w][id].Latest_Was_Correct = "Unknown"]_vars

\* a finding whose prediction matched a resolved outcome has been merged into
\* an entry that already existed, and the entry was saved
C25_CorrectPredictionMerged ==
  /\ pc[1] = "idle"
  /\ analysis.analyzer = "production"
  /\ analysis.exported
  /\ analysis.actual_result # NoResult
  /\ \E k \in 1..Len(analysis.contrarians) :
        LET f == analysis.contrarians[k]
            id == GenerateAuthorId(f.author)
        IN  /\ f.prediction_correct
            /\ id \in DOMAIN master.rows
            /\ master.rows[id].Total_Contrarian_Instances >= 2
            /\ master.rows[id].Last_Updated = now[1]

(* ---------------------- C26: covered companies -------------------------- *)

\* the companies of the findings merged for an identity, read from its log
MergedCompanies(id) == {hist[id][k].Company : k \in 1..Len(hist[id])}

SentimentOfResult(r) ==
  IF r = "beat" THEN "bullish" ELSE IF r = "miss" THEN "bearish" ELSE "neutral"

\* C27: for every outcome get_actual_earnings_result produces, the sentiment
\* label identify_contrarians derives from it agrees with its result category
\* (bullish with beat, bearish with miss, neutral with meet), so a finding's
\* sentiment is judged correct exactly when it is the sentiment of the
\* outcome's category; also at and just beyond the 3% boundaries.
C27_LabelMatchesResult ==
  (analysis.analyzer = "production" /\ analysis.actual_result # NoResult) =>
     /\ ActualSentiment(analysis.actual_result)
          = SentimentOfResult(analysis.actual_result.result)
     /\ \A k \in 1..Len(analysis.contrarians) :
           analysis.contrarians[k].sentiment_correct
             = (analysis.contrarians[k].sentiment
                  = SentimentOfResult(analysis.actual_result.result))

(* ------------------------ C28: confidence bonus ------------------------- *)

\* the bonus table as stated: nothing is added when no confidence is given
StatedBonus(confidence) ==
  IF confidence = "high" THEN 20
  ELSE IF confidence = "medium" THEN 10
  ELSE IF confidence = "low" THEN 5
  ELSE 0

\* C28: the confidence bonus inside the score of a production finding is +20
\* for high, +10 for medium, +5 for low confidence and +0 when the article's
\* analysis carries no confidence.
C28_ConfidenceBonus ==
  analysis.analyzer = "production" =>
    \A k \in 1..Len(analysis.contrarians) :
       LET f == analysis.contrarians[k]
           total == analysis.total_articles
           available == analysis.actual_result # NoResult
       IN  f.contrarian_score
             = RoundDiv(
                 DimensionTerm(f.was_minority_sentiment,
                               analysis.sentiment_counts[f.sentiment], total,
                               StatedBonus(f.confidence),
                               f.sentiment_correct)
                 + DimensionTerm(f.was_minority_prediction,
                                 analysis.prediction_counts[f.prediction], total,
                                 StatedBonus(f.prediction_confidence),
                                 f.prediction_correct),
                 2 * total)

(* --------------------- C29: identity collisions ------------------------- *)

\* the merge step meets a finding whose author string differs from the
\* Author_Name stored under the same key
SpellingCollision(w) ==
  /\ MergeStep(w)
  /\ CurrentId(w) \in DOMAIN updated[w]
  /\ updated[w][CurrentId(w)].Author_Name # CurrentContrarian(w).author

\* C29: a merge step that meets an author string spelled differently from the
\* name stored under the same normalized key logs an IdentityCollisionWarning
\* and goes on (the call is not ended by it).
C29_CollisionWarned ==
  [][\A w \in Writers :
       SpellingCollision(w) =>
         /\ "IdentityCollisionWarning" \in printed'
         /\ pc'[w] \in {"loop", "save"}]_vars

(* ----------------------- C30: repeat contrarians ------------------------ *)

\* C30: get_repeat_contrarians(min_instances) on a ledger written by merges
\* returns exactly the entries whose Total_Contrarian_Instances is at least
\* min_instances: each of them, and no entry with fewer instances.
C30_RepeatExact ==
  [][\A min_instances \in 1..MaxLimit :
       (query = NoQuery /\ master.exists /\ GetRepeatContrarians(min_instances)) =>
          /\ query'.outcome = "returned"
          /\ \A id \in DOMAIN master.rows :
                id \in query'.ids
                  <=> Instances(master.rows, id) >= min_instances
          /\ query'.ids \subseteq DOMAIN master.rows
          /\ query'.rows = Cardinality(query'.ids)]_vars

\* the query has run on a ledger of two entries with one instance each and
\* returned none of them
C30_SingleInstancesExcluded ==
  /\ query.op = "get_repeat_contrarians"
  /\ query.outcome = "returned"
  /\ query.ids = {}
  /\ master.exists
  /\ Cardinality(DOMAIN master.rows) = 2
  /\ \A id \in DOMAIN master.rows : master.rows[id].Total_Contrarian_Instances = 1

====
